---- MODULE Spec2Model ----
(***************************************************************************)
(* The flowchart graph editor of ESP32_PLC_GUI: FlowchartCanvas            *)
(* (editor/flowchart_canvas.py), DraggableBlock (editor/draggable_block.py),*)
(* StartBlock, AutoRoutedWire, and the project save/open path of           *)
(* MainWindow (Main.py) with validate_project_data (utils/validators.py).  *)
(*                                                                         *)
(* Every handler is an operator from a canvas record to a canvas record,   *)
(* and every action applies one handler to the current state.              *)
(***************************************************************************)
EXTENDS Integers, Sequences, FiniteSets, TLC

VARIABLES
    blocks,             \* block object id -> DraggableBlock / StartBlock fields
    scene,              \* block ids that are items of the scene, in insertion order
    wires,              \* wire object id -> AutoRoutedWire fields
    wscene,             \* wire ids that are items of the scene, in insertion order
    temp_wire,          \* FlowchartCanvas._temp_wire (0: None)
    dragging_from,      \* FlowchartCanvas._dragging_from (0: None)
    dragging_from_port, \* FlowchartCanvas._dragging_from_port
    copy_buffer,        \* FlowchartCanvas._copy_buffer
    wire_buffer,        \* FlowchartCanvas._wire_buffer
    drawn_cols,         \* FlowchartCanvas.drawn_cols
    drawn_rows,         \* FlowchartCanvas.drawn_rows
    pending,            \* blocks with a QTimer.singleShot(0, _update_connected_wires) outstanding
    project_modified,   \* MainWindow.project_modified
    file,               \* the project file on disk (NoFile: never saved)
    open_error,         \* the error the last open_project ended in ("none": it loaded)
    hung,               \* the event loop is stuck in a handler that does not return
    current_project_file, \* MainWindow.current_project_file
    last_call           \* the call the last handler made, when its outcome is observed:
                        \* its arguments, its return value and the state it found

vars == <<blocks, scene, wires, wscene, temp_wire, dragging_from, dragging_from_port,
          copy_buffer, wire_buffer, drawn_cols, drawn_rows, pending,
          project_modified, file, open_error, hung, current_project_file, last_call>>

----------------------------------------------------------------------------
(* Bounds of the model *)

\* Block objects alive at any time (on the scene, or off it and still referred to).
MaxBlocks == 3
\* Wire objects alive at any time (placed, provisional or orphaned).
MaxWires == 2
\* Blocks selected when Copy is pressed.
MaxSel == 2
\* Pasted blocks land no lower than this: a pasted block is not copied again.
MaxPasteY == 150
\* Drops at the edge of the scene stop once the grid has this many columns or rows.
MaxCols == 100
MaxRows == 230

(* Program constants *)
cell_size == 50
cols == 78
rows == 130
port_size == 12
tolerance == 25
paste_offset == 50
corner_radius == 15

None == "None"
\* None where a point is expected.
NoPoint == <<>>
\* The overlap loop of mouseMoveEvent does not end.
Hang == <<>>
Ports == {"top", "left", "right", "bottom"}
\* Children of a block in descending stacking order (last created first).
PortSeq == <<"bottom", "right", "left", "top">>

\* Labels dropped from the toolbox in this model.
Texts == {"Timer / Clock"}
\* No readable project file on disk.
NoFile == [keys |-> {}]
\* No call recorded.
NoCall == [op |-> "none"]
\* The path the user gives in the file dialogs.
ProjectPath == "project.plc"

----------------------------------------------------------------------------
(* Sequences as Python lists *)

Range(s) == {s[i] : i \in DOMAIN s}
Reverse(s) == [i \in 1..Len(s) |-> s[Len(s) + 1 - i]]
\* list.remove(x): the first occurrence goes.
RECURSIVE ListRemove(_, _)
ListRemove(s, x) ==
    IF s = <<>> THEN <<>>
    ELSE IF Head(s) = x THEN Tail(s)
    ELSE <<Head(s)>> \o ListRemove(Tail(s), x)
SeqWithout(s, X) == SelectSeq(s, LAMBDA e : e \notin X)
Min(S) == CHOOSE x \in S : \A y \in S : x <= y
Max(S) == CHOOSE x \in S : \A y \in S : x >= y
Abs(x) == IF x < 0 THEN -x ELSE x

\* A new object: the least identity no live object holds.
FreshIds(used, n) ==
    LET RECURSIVE Take(_, _, _)
        Take(k, i, acc) ==
            IF k = 0 THEN acc
            ELSE IF i \in used THEN Take(k, i + 1, acc)
            ELSE Take(k - 1, i + 1, Append(acc, i))
    IN Take(n, 1, <<>>)

----------------------------------------------------------------------------
(* Geometry *)

\* FlowchartCanvas.get_block_size with the fallback configuration of load_block_config.
GetBlockSize(text) ==
    IF text = "Wire Router" THEN <<75, 40>> ELSE <<150, 40>>

StartSize == <<80, 40>>

\* Centre of a port's ellipse in the block's frame.
PortLocal(blk, p) ==
    LET w == blk.size[1]
        h == blk.size[2]
    IN CASE p = "top" -> <<w \div 2, 0>>
         [] p = "left" -> <<0, h \div 2>>
         [] p = "right" -> <<w, h \div 2>>
         [] p = "bottom" ->
                IF blk.kind = "StartBlock" THEN <<w \div 2, h + 3>> ELSE <<w \div 2, h>>

\* port.mapToScene(port.rect().center())
PortPos(blk, p) ==
    <<blk.pos[1] + PortLocal(blk, p)[1], blk.pos[2] + PortLocal(blk, p)[2]>>

\* StartBlock hides every port but bottom.
PortVisible(blk, p) == blk.kind # "StartBlock" \/ p = "bottom"

\* The point lies in the port's ellipse (diameter port_size).
PortHit(blk, p, pt) ==
    LET c == PortPos(blk, p)
    IN 4 * ((pt[1] - c[1]) * (pt[1] - c[1]) + (pt[2] - c[2]) * (pt[2] - c[2]))
           <= port_size * port_size

\* (scene_pt - port_center).manhattanLength()
Manhattan(a, b) == Abs(a[1] - b[1]) + Abs(a[2] - b[2])

\* item.mapRectToScene(item.boundingRect()) as <<left, top, right, bottom>>
RectAt(pos, size) == <<pos[1], pos[2], pos[1] + size[1], pos[2] + size[2]>>
BlockRect(blk) == RectAt(blk.pos, blk.size)
\* QRectF.intersects: a common area, touching edges do not count.
Intersects(r, s) == r[1] < s[3] /\ s[1] < r[3] /\ r[2] < s[4] /\ s[2] < r[4]

----------------------------------------------------------------------------
(* DraggableBlock *)

\* DraggableBlock.update_port_colors
update_port_colors(blk) ==
    [blk EXCEPT !.brush =
        [p \in Ports |->
            IF p \in blk.input_ports /\ blk.in_wires # <<>> THEN "orange"
            ELSE IF p = blk.output_port /\ blk.out_wires # <<>> THEN "green"
            ELSE "darkblue"]]

\* DraggableBlock.__init__
NewBlock(kind, text, size, pos) ==
    [kind |-> kind, text |-> text, size |-> size, pos |-> pos,
     input_ports |-> {}, output_port |-> None,
     in_wires |-> <<>>, out_wires |-> <<>>,
     brush |-> [p \in Ports |-> "darkblue"]]

\* StartBlock.__init__
NewStartBlock(pos) == NewBlock("StartBlock", "START", StartSize, pos)

\* assign_input_port without the test against the output port.
AssignInputAnyPort(blk, p) == p \in Ports

\* The guard of assign_input_port.
AssignInputOk(blk, p) == p \in Ports /\ p # blk.output_port

\* DraggableBlock.assign_input_port: the block afterwards.
assign_input_port(blk, p) ==
    IF AssignInputOk(blk, p)
    THEN update_port_colors([blk EXCEPT !.input_ports = @ \cup {p}])
    ELSE blk

\* assign_output_port without the test against the input ports.
AssignOutputAnyPort(blk, p) == p \in Ports

\* The guard of assign_output_port.
AssignOutputOk(blk, p) == p \in Ports /\ p \notin blk.input_ports

\* DraggableBlock.assign_output_port: the block afterwards.
assign_output_port(blk, p) ==
    IF AssignOutputOk(blk, p)
    THEN update_port_colors([blk EXCEPT !.output_port = p])
    ELSE blk

\* reset_ports that clears the input ports only.
reset_input_ports(blk) ==
    update_port_colors(IF blk.in_wires = <<>> THEN [blk EXCEPT !.input_ports = {}] ELSE blk)

\* DraggableBlock.reset_ports
reset_ports(blk) ==
    LET b1 == IF blk.in_wires = <<>> THEN [blk EXCEPT !.input_ports = {}] ELSE blk
        b2 == IF b1.out_wires = <<>> THEN [b1 EXCEPT !.output_port = None] ELSE b1
    IN update_port_colors(b2)

\* DraggableBlock.remove_input_port
remove_input_port(blk, p) ==
    IF p \in blk.input_ports
    THEN update_port_colors([blk EXCEPT !.input_ports = @ \ {p}])
    ELSE blk

\* AutoRoutedWire.__init__: no endpoint bound yet.
NewWire(start, end) ==
    [from_block |-> 0, from_port |-> None, to_block |-> 0, to_port |-> None,
     start_point |-> start, end_point |-> end]

\* The points of a path are kept in fifths of a scene unit, in which dx * 0.6 is the
\* whole number 3 * dx.
Fifths(p) == <<5 * p[1], 5 * p[2]>>

Sgn(x) == IF x > 0 THEN 1 ELSE IF x < 0 THEN -1 ELSE 0

\* direction / length, lines 80-83, for a leg that runs along one axis.
UnitDir(p, q) == <<Sgn(q[1] - p[1]), Sgn(q[2] - p[2])>>

\* p + u * k
Along(p, u, k) == <<p[1] + u[1] * k, p[2] + u[2] * k>>

\* _add_rounded_path rounding the first bend whatever the length of the second leg.
add_rounded_path_eager(p1, p2, p3, p4, radius) ==
    LET r == 5 * radius
        u1 == UnitDir(p1, p2)
        u2 == UnitDir(p2, p3)
    IN IF Manhattan(p1, p2) > 2 * r
       THEN << <<"lineTo", Along(p2, u1, -r)>>, <<"quadTo", p2, Along(p2, u2, r)>>,
               <<"lineTo", p3>>, <<"lineTo", p4>> >>
       ELSE << <<"lineTo", p2>>, <<"lineTo", p3>>, <<"lineTo", p4>> >>

\* AutoRoutedWire._add_rounded_path: what is appended to a path that stands at p1.
\* A leg longer than 2 * radius has length > 0, so the inner else branches of lines
\* 111-120 are never taken.
add_rounded_path(p1, p2, p3, p4, radius) ==
    LET r == 5 * radius
        u1 == UnitDir(p1, p2)
        u2 == UnitDir(p2, p3)
        u3 == UnitDir(p3, p4)
        sharp == << <<"lineTo", p2>>, <<"lineTo", p3>>, <<"lineTo", p4>> >>
    IN IF Manhattan(p1, p2) > 2 * r
       THEN IF Manhattan(p2, p3) > 2 * r
            THEN << <<"lineTo", Along(p2, u1, -r)>>, <<"quadTo", p2, Along(p2, u2, r)>> >>
                 \o (IF Manhattan(p3, p4) > 2 * r
                     THEN << <<"lineTo", Along(p3, u2, -r)>>,
                             <<"quadTo", p3, Along(p3, u3, r)>>,
                             <<"lineTo", p4>> >>
                     ELSE << <<"lineTo", p3>>, <<"lineTo", p4>> >>)
            ELSE << <<"lineTo", Along(p2, u1, -r)>> >> \o sharp
       ELSE sharp

\* update_path always routing horizontal-first.
update_path_wide(start, end) ==
    LET dx == end[1] - start[1]
        dy == end[2] - start[2]
        s == Fifths(start)
        e == Fifths(end)
        mid_x == s[1] + 3 * dx
    IN IF Abs(dx) < 10 \/ Abs(dy) < 10
       THEN << <<"moveTo", s>>, <<"lineTo", e>> >>
       ELSE << <<"moveTo", s>> >>
            \o add_rounded_path(s, <<mid_x, s[2]>>, <<mid_x, e[2]>>, e, corner_radius)

\* AutoRoutedWire.update_path: the path drawn between start_point and end_point.
update_path(start, end) ==
    LET dx == end[1] - start[1]
        dy == end[2] - start[2]
        s == Fifths(start)
        e == Fifths(end)
        direct == << <<"moveTo", s>>, <<"lineTo", e>> >>
    IN IF Abs(dx) < 10 /\ Abs(dy) < 10 THEN direct
       ELSE IF Abs(dx) < 10 THEN direct
       ELSE IF Abs(dy) < 10 THEN direct
       ELSE IF Abs(dx) > Abs(dy)
       THEN LET mid_x == s[1] + 3 * dx
            IN << <<"moveTo", s>> >>
               \o add_rounded_path(s, <<mid_x, s[2]>>, <<mid_x, e[2]>>, e, corner_radius)
       ELSE LET mid_y == s[2] + 3 * dy
            IN << <<"moveTo", s>> >>
               \o add_rounded_path(s, <<s[1], mid_y>>, <<e[1], mid_y>>, e, corner_radius)

----------------------------------------------------------------------------
(* The canvas as one record, the argument and the result of every handler *)

Canvas ==
    [blocks |-> blocks, scene |-> scene, wires |-> wires, wscene |-> wscene,
     temp_wire |-> temp_wire, dragging_from |-> dragging_from,
     dragging_from_port |-> dragging_from_port,
     copy_buffer |-> copy_buffer, wire_buffer |-> wire_buffer,
     drawn_cols |-> drawn_cols, drawn_rows |-> drawn_rows,
     pending |-> pending, project_modified |-> project_modified]

\* scene.items() restricted to blocks: descending stacking order, the newest first.
SceneBlocks(c) == Reverse(c.scene)
InScene(c) == Range(c.scene)

\* A block that left the scene: a wire that still refers to it reads where its ports
\* are and nothing else, unless its own timer is still to fire.
OffScene(blk) ==
    [NewBlock(blk.kind, blk.text, blk.size, blk.pos) EXCEPT !.text = ""]

\* Objects nothing on the canvas refers to any more are collected; identities are reused.
Collect(c) ==
    LET liveW == Range(c.wscene)
                 \cup (IF c.temp_wire = 0 THEN {} ELSE {c.temp_wire})
                 \cup UNION {Range(c.blocks[b].in_wires) \cup Range(c.blocks[b].out_wires)
                             : b \in InScene(c)}
        refB == {c.wires[w].from_block : w \in liveW} \cup {c.wires[w].to_block : w \in liveW}
        keepB == InScene(c) \cup Range(c.pending)
                 \cup (IF c.dragging_from = 0 THEN {} ELSE {c.dragging_from})
        liveB == keepB \cup (refB \ {0})
    IN [c EXCEPT
          !.wires = [w \in liveW |-> c.wires[w]],
          !.blocks = [b \in liveB |->
                         IF b \in InScene(c) THEN c.blocks[b]
                         ELSE IF b \in keepB
                         THEN [c.blocks[b] EXCEPT
                                 !.in_wires = SelectSeq(@, LAMBDA w : w \in liveW),
                                 !.out_wires = SelectSeq(@, LAMBDA w : w \in liveW)]
                         ELSE OffScene(c.blocks[b])]]

\* The identity of an object is arbitrary: objects are renamed by their order on the
\* scene, those off the scene after them, so that one canvas has one representation.
Sorted(S) ==
    LET RECURSIVE Asc(_)
        Asc(T) == IF T = {} THEN <<>> ELSE <<Min(T)>> \o Asc(T \ {Min(T)})
    IN Asc(S)

IndexOf(s, x) == IF x = 0 THEN 0 ELSE CHOOSE i \in DOMAIN s : s[i] = x

Canon(c) ==
    LET bo == c.scene \o Sorted(DOMAIN c.blocks \ Range(c.scene))
        wo == c.wscene \o Sorted(DOMAIN c.wires \ Range(c.wscene))
        Ws(l) == [k \in DOMAIN l |-> IndexOf(wo, l[k])]
    IN [c EXCEPT
          !.blocks = [i \in DOMAIN bo |->
                         [c.blocks[bo[i]] EXCEPT !.in_wires = Ws(@), !.out_wires = Ws(@)]],
          !.wires = [j \in DOMAIN wo |->
                        [c.wires[wo[j]] EXCEPT !.from_block = IndexOf(bo, @),
                                               !.to_block = IndexOf(bo, @)]],
          !.scene = [i \in DOMAIN c.scene |-> i],
          !.wscene = [j \in DOMAIN c.wscene |-> j],
          !.temp_wire = IndexOf(wo, @),
          !.dragging_from = IndexOf(bo, @),
          !.pending = [k \in DOMAIN c.pending |-> IndexOf(bo, c.pending[k])]]

\* setPos on a block: the position, and itemChange's QTimer.singleShot(0, ...).
\* QGraphicsItem.setPos returns at once when the position is the one it has.
SetPos(c, b, pos) ==
    IF c.blocks[b].pos = pos THEN c
    ELSE [c EXCEPT !.blocks[b].pos = pos,
                   !.pending = IF b \in Range(@) THEN @ ELSE Append(@, b)]

\* DraggableBlock.portScenePos('out')
PortScenePosOut(blk) ==
    IF blk.output_port # None THEN PortPos(blk, blk.output_port) ELSE NoPoint

\* DraggableBlock.portScenePos('in'): the first port of iter(input_ports), first being
\* whatever the set's iteration order makes it.
PortScenePosIn(blk, first) ==
    IF blk.input_ports # {} THEN PortPos(blk, first) ELSE NoPoint

\* DraggableBlock._update_connected_wires
update_connected_wires(c, b, first) ==
    LET blk == c.blocks[b]
        start_out == PortScenePosOut(blk)
        end_in == PortScenePosIn(blk, first)
        AfterOut(w) ==
            LET wr == c.wires[w]
            IN IF w \in Range(blk.out_wires) /\ wr.to_block # 0 /\ wr.to_port # None
                  /\ start_out # NoPoint
               THEN [wr EXCEPT !.start_point = start_out,
                               !.end_point = PortPos(c.blocks[wr.to_block], wr.to_port)]
               ELSE wr
        AfterIn(w) ==
            LET wr == AfterOut(w)
            IN IF w \in Range(blk.in_wires) /\ wr.from_block # 0 /\ wr.from_port # None
                  /\ end_in # NoPoint
               THEN [wr EXCEPT !.start_point = PortPos(c.blocks[wr.from_block], wr.from_port),
                               !.end_point = end_in]
               ELSE wr
    IN [c EXCEPT !.wires = [w \in DOMAIN c.wires |-> AfterIn(w)]]

\* FlowchartCanvas._disconnect_wire
disconnect_wire(c, w) ==
    LET wr == c.wires[w]
        After(b) ==
            LET blk == c.blocks[b]
                in_hit == w \in Range(blk.in_wires)
                out_hit == w \in Range(blk.out_wires)
                b1 == IF in_hit
                      THEN remove_input_port([blk EXCEPT !.in_wires = ListRemove(@, w)],
                                             wr.to_port)
                      ELSE blk
                b2 == IF out_hit THEN [b1 EXCEPT !.out_wires = ListRemove(@, w)] ELSE b1
            IN IF (in_hit \/ out_hit) /\ b2.in_wires = <<>> /\ b2.out_wires = <<>>
               THEN reset_ports(b2)
               ELSE update_port_colors(b2)
    IN [c EXCEPT
          !.wscene = ListRemove(@, w),
          !.blocks = [b \in DOMAIN c.blocks |->
                         IF b \in InScene(c) THEN After(b) ELSE c.blocks[b]],
          !.project_modified = TRUE]

\* _expand_scene drawing exactly the extent the blocks of the scene ask for.
expand_scene_exact(c) ==
    LET bs == InScene(c)
        max_x == IF bs = {} THEN 0
                 ELSE Max({c.blocks[b].pos[1] + c.blocks[b].size[1] : b \in bs})
        max_y == IF bs = {} THEN 0
                 ELSE Max({c.blocks[b].pos[2] + c.blocks[b].size[2] : b \in bs})
    IN [c EXCEPT !.drawn_cols = Max({cols, (max_x \div cell_size) + 1}) + 10,
                 !.drawn_rows = Max({rows, (max_y \div cell_size) + 1}) + 50]

\* FlowchartCanvas._expand_scene
expand_scene(c) ==
    LET bs == InScene(c)
        max_x == IF bs = {} THEN 0
                 ELSE Max({c.blocks[b].pos[1] + c.blocks[b].size[1] : b \in bs})
        max_y == IF bs = {} THEN 0
                 ELSE Max({c.blocks[b].pos[2] + c.blocks[b].size[2] : b \in bs})
        req_c == Max({cols, (max_x \div cell_size) + 1})
        req_r == Max({rows, (max_y \div cell_size) + 1})
        tgt_c == req_c + 10
        tgt_r == req_r + 50
    IN [c EXCEPT !.drawn_cols = IF tgt_c > @ THEN tgt_c ELSE @,
                 !.drawn_rows = IF tgt_r > @ THEN tgt_r ELSE @]

\* scene.sceneRect(): width and height, as __init__ and _expand_scene set them.
SceneWidth(c) == (c.drawn_cols + 1) * cell_size
SceneHeight(c) == (c.drawn_rows + 1) * cell_size

\* The clamp of dropEvent and mouseMoveEvent: min(max(v, cs), extent - size).
Clamp(v, extent, size) == Min({Max({v, cell_size}), extent - size})

----------------------------------------------------------------------------
(* FlowchartCanvas: the wire gesture *)

\* The port ellipses of the scene's blocks, as scene.items() orders them.
AllPorts(c) ==
    LET bs == SceneBlocks(c)
    IN [k \in 1..(4 * Len(bs)) |-> <<bs[((k - 1) \div 4) + 1], PortSeq[((k - 1) % 4) + 1]>>]

\* The port ellipses in scene.items(scene_pt): items that are hidden are not found.
ItemsAt(c, pt) ==
    SelectSeq(AllPorts(c),
              LAMBDA it : PortVisible(c.blocks[it[1]], it[2]) /\ PortHit(c.blocks[it[1]], it[2], pt))

\* mousePressEvent, lines 213-225: the port takes the output role and a provisional
\* wire starts on it.
StartWire(c, b, p) ==
    LET w == FreshIds(DOMAIN c.wires, 1)[1]
        blk == assign_output_port(c.blocks[b], p)
        p0 == PortPos(blk, p)
    IN [c EXCEPT !.blocks[b] = blk,
                 !.dragging_from = b,
                 !.dragging_from_port = p,
                 !.wires = (w :> NewWire(p0, p0)) @@ @,
                 !.wscene = Append(@, w),
                 !.temp_wire = w]

\* mousePressEvent, lines 200-210: a press on a port that shows a connection.
PressDisconnect(c, b, p) ==
    LET blk == c.blocks[b]
        to_p == SelectSeq(blk.in_wires, LAMBDA w : c.wires[w].to_port = p)
    IN IF p = blk.output_port /\ blk.out_wires # <<>>
       THEN disconnect_wire(c, blk.out_wires[1])
       ELSE IF to_p # <<>> THEN disconnect_wire(c, to_p[1])
       ELSE c

\* The condition of line 200.
PortCarriesWire(blk, p) ==
    \/ (p = blk.output_port /\ blk.out_wires # <<>>)
    \/ (p \in blk.input_ports /\ blk.in_wires # <<>>)

\* mousePressEvent with the left button, the loop over the items under the pointer;
\* with no port taking the press it goes to QGraphicsView (selection only).
RECURSIVE PressItems(_, _)
PressItems(c, items) ==
    IF items = <<>> THEN c
    ELSE LET b == Head(items)[1]
             p == Head(items)[2]
         IN IF PortCarriesWire(c.blocks[b], p) THEN PressDisconnect(c, b, p)
            ELSE IF AssignOutputOk(c.blocks[b], p) THEN StartWire(c, b, p)
            ELSE PressItems(c, Tail(items))

mousePressEvent(c, pt) == PressItems(c, ItemsAt(c, pt))

\* mousePressEvent with the right button, and keyPressEvent with Escape.
cancel_wire(c) ==
    IF c.temp_wire # 0
    THEN [c EXCEPT !.wscene = ListRemove(@, c.temp_wire),
                   !.temp_wire = 0,
                   !.dragging_from = 0,
                   !.dragging_from_port = None]
    ELSE c

\* mouseMoveEvent while a provisional wire is live: its free end follows the pointer.
MoveWire(c, pt) ==
    [c EXCEPT !.wires[c.temp_wire].end_point = pt]

\* mouseReleaseEvent, lines 311-349 and 374-408: the provisional wire becomes the wire
\* from the gesture's port to port q of block d.
Finalize(c, d, q, emit) ==
    LET w == c.temp_wire
        src == c.dragging_from
        dst == assign_input_port(c.blocks[d], q)
        wr == [c.wires[w] EXCEPT !.from_block = src,
                                 !.from_port = c.dragging_from_port,
                                 !.to_block = d,
                                 !.to_port = q,
                                 !.end_point = PortPos(c.blocks[d], q)]
    IN [c EXCEPT
          !.wires[w] = wr,
          !.blocks[src] = update_port_colors([@ EXCEPT !.out_wires = Append(@, w)]),
          !.blocks[d] = update_port_colors([dst EXCEPT !.in_wires = Append(@, w)]),
          !.project_modified = IF emit THEN TRUE ELSE @,
          !.temp_wire = 0,
          !.dragging_from = 0,
          !.dragging_from_port = None]

\* The first loop of mouseReleaseEvent: the ports under the pointer that take the wire.
ExactTargets(c, pt) ==
    SelectSeq(ItemsAt(c, pt),
              LAMBDA it : it[1] # c.dragging_from /\ AssignInputOk(c.blocks[it[1]], it[2]))

\* The second loop: every port ellipse of scene.items() within the tolerance.
NearTargets(c, pt) ==
    SelectSeq(AllPorts(c),
              LAMBDA it : /\ it[1] # c.dragging_from
                          /\ Manhattan(pt, PortPos(c.blocks[it[1]], it[2])) <= tolerance
                          /\ AssignInputOk(c.blocks[it[1]], it[2]))

mouseReleaseEvent(c, pt) ==
    IF c.temp_wire # 0 /\ c.dragging_from # 0
    THEN IF ExactTargets(c, pt) # <<>>
         THEN Finalize(c, ExactTargets(c, pt)[1][1], ExactTargets(c, pt)[1][2], TRUE)
         ELSE IF NearTargets(c, pt) # <<>>
         THEN Finalize(c, NearTargets(c, pt)[1][1], NearTargets(c, pt)[1][2], FALSE)
         ELSE c
    ELSE c

----------------------------------------------------------------------------
(* FlowchartCanvas: placement, drag, keys, clipboard *)

\* dropEvent, lines 130-141: the new block, still at the origin of its own frame, is
\* tested against every block of the scene; each hit moves the drop point right.
RECURSIVE DropScan(_, _, _, _, _)
DropScan(c, items, size, pt, blkpos) ==
    IF items = <<>> THEN pt
    ELSE IF Intersects(BlockRect(c.blocks[Head(items)]), RectAt(blkpos, size))
    THEN LET pt2 == <<pt[1] + size[1] + 10, pt[2]>>
         IN DropScan(c, Tail(items), size, pt2, <<pt2[1] - 75, pt2[2] - 20>>)
    ELSE DropScan(c, Tail(items), size, pt, blkpos)

\* FlowchartCanvas.dropEvent
dropEvent(c, text, pt) ==
    LET size == GetBlockSize(text)
        pt2 == DropScan(c, SceneBlocks(c), size, pt, <<0, 0>>)
        x == Clamp(pt2[1] - 75, SceneWidth(c), size[1])
        y == Clamp(pt2[2] - 20, SceneHeight(c), size[2])
        b == FreshIds(DOMAIN c.blocks, 1)[1]
        c1 == [c EXCEPT !.blocks = (b :> NewBlock("DraggableBlock", text, size, <<0, 0>>)) @@ @,
                        !.scene = Append(@, b),
                        !.project_modified = TRUE]
    IN expand_scene(SetPos(c1, b, <<x, y>>))

\* mouseMoveEvent, lines 257-260: the dragged block is pushed right until it is clear
\* of the item; Hang when the clamp undoes the push and the loop cannot end.
RECURSIVE PushClear(_, _, _, _)
PushClear(c, item, b, pos) ==
    LET size == c.blocks[b].size
    IN IF ~Intersects(BlockRect(c.blocks[item]), RectAt(pos, size)) THEN pos
       ELSE LET x == Clamp(pos[1] + size[1] + 10, SceneWidth(c), size[1])
            IN IF x = pos[1] THEN Hang
               ELSE PushClear(c, item, b, <<x, pos[2]>>)

\* mouseMoveEvent, lines 255-260: against every other block of the scene in turn.
RECURSIVE ResolveOverlap(_, _, _, _)
ResolveOverlap(c, items, b, pos) ==
    IF items = <<>> \/ pos = Hang THEN pos
    ELSE IF Head(items) = b THEN ResolveOverlap(c, Tail(items), b, pos)
    ELSE ResolveOverlap(c, Tail(items), b, PushClear(c, Head(items), b, pos))

\* Where mouseMoveEvent leaves block b once QGraphicsView has moved it to `to`.
DragSettle(c, b, to) ==
    LET size == c.blocks[b].size
        x == Clamp(to[1], SceneWidth(c), size[1])
        y == Clamp(to[2], SceneHeight(c), size[2])
    IN ResolveOverlap(c, SceneBlocks(c), b, <<x, y>>)

\* FlowchartCanvas.mouseMoveEvent with no provisional wire and block b selected.
mouseMoveEvent(c, b, to) == SetPos(c, b, DragSettle(c, b, to))

\* keyPressEvent with Delete: the selected items in turn, then _expand_scene.
RECURSIVE DeleteItems(_, _)
DeleteItems(c, sel) ==
    IF sel = <<>> THEN c
    ELSE LET it == Head(sel)
         IN IF it[1] = "wire" THEN DeleteItems(disconnect_wire(c, it[2]), Tail(sel))
            ELSE IF c.blocks[it[2]].kind = "StartBlock" THEN DeleteItems(c, Tail(sel))
            ELSE DeleteItems([c EXCEPT !.scene = ListRemove(@, it[2])], Tail(sel))

keyDelete(c, sel) == expand_scene(DeleteItems(c, sel))

\* Copy that stores no wire.
CopyWiresNone(c, sel) == <<>>

\* keyPressEvent with Copy, lines 461-467: the wires among the selected blocks.
CopyWires(c, sel) ==
    LET Of(i) ==
            LET ws == SelectSeq(c.blocks[sel[i]].out_wires,
                                LAMBDA w : c.wires[w].to_block \in Range(sel))
            IN [k \in 1..Len(ws) |->
                   <<i,
                     Min({j \in 1..Len(sel) : sel[j] = c.wires[ws[k]].to_block}),
                     c.wires[ws[k]].from_port,
                     c.wires[ws[k]].to_port>>]
        RECURSIVE Cat(_)
        Cat(i) == IF i > Len(sel) THEN <<>> ELSE Of(i) \o Cat(i + 1)
    IN Cat(1)

\* keyPressEvent with Copy; sel is scene.selectedItems() in the order Qt gives it.
keyCopy(c, sel) ==
    LET bs == SelectSeq(sel, LAMBDA b : c.blocks[b].kind # "StartBlock")
    IN [c EXCEPT !.copy_buffer = [i \in 1..Len(bs) |->
                                     [text |-> c.blocks[bs[i]].text, pos |-> c.blocks[bs[i]].pos]],
                 !.wire_buffer = CopyWires(c, bs)]

\* keyPressEvent with Paste, lines 489-515: one wire per entry of the wire buffer.
RECURSIVE PasteWires(_, _, _)
PasteWires(c, buf, new_blocks) ==
    IF buf = <<>> THEN c
    ELSE LET e == Head(buf)
             src == new_blocks[e[1]]
             dst == new_blocks[e[2]]
             w == FreshIds(DOMAIN c.wires, 1)[1]
             c1 == [c EXCEPT !.blocks[src] = assign_output_port(@, e[3])]
             c2 == [c1 EXCEPT !.blocks[dst] = assign_input_port(@, e[4])]
             wr == [from_block |-> src, from_port |-> e[3], to_block |-> dst, to_port |-> e[4],
                    start_point |-> PortPos(c2.blocks[src], e[3]),
                    end_point |-> PortPos(c2.blocks[dst], e[4])]
             c3 == [c2 EXCEPT !.wires = (w :> wr) @@ @,
                              !.blocks[src].out_wires = Append(@, w),
                              !.wscene = Append(@, w)]
             c4 == [c3 EXCEPT !.blocks[dst].in_wires = Append(@, w)]
         IN IF e[1] <= Len(new_blocks) /\ e[2] <= Len(new_blocks)
            THEN PasteWires(c4, Tail(buf), new_blocks)
            ELSE PasteWires(c, Tail(buf), new_blocks)

\* keyPressEvent with Paste, lines 478-486: one block per entry of the copy buffer.
RECURSIVE PasteBlocks(_, _, _)
PasteBlocks(c, buf, ids) ==
    IF buf = <<>> THEN c
    ELSE LET b == Head(ids)
             e == Head(buf)
             c1 == [c EXCEPT !.blocks = (b :> NewBlock("DraggableBlock", e.text,
                                                       GetBlockSize(e.text), <<0, 0>>)) @@ @,
                             !.scene = Append(@, b)]
         IN PasteBlocks(SetPos(c1, b, <<e.pos[1] + paste_offset, e.pos[2] + paste_offset>>),
                        Tail(buf), Tail(ids))

\* keyPressEvent with Paste
keyPaste(c) ==
    IF c.copy_buffer = <<>> THEN c
    ELSE LET ids == FreshIds(DOMAIN c.blocks, Len(c.copy_buffer))
             c1 == PasteBlocks(c, c.copy_buffer, ids)
             c2 == PasteWires(c1, c.wire_buffer, ids)
         IN [c2 EXCEPT !.blocks = [b \in DOMAIN c2.blocks |->
                                      IF b \in Range(ids) THEN update_port_colors(c2.blocks[b])
                                      ELSE c2.blocks[b]]]

----------------------------------------------------------------------------
(* FlowchartCanvas: project data *)

\* FlowchartCanvas.clear_canvas
clear_canvas(c) ==
    LET b == FreshIds(DOMAIN c.blocks, 1)[1]
        c1 == [c EXCEPT !.blocks = (b :> NewStartBlock(<<0, 0>>)) @@ @,
                        !.scene = <<b>>,
                        !.wscene = <<>>,
                        !.temp_wire = 0,
                        !.dragging_from = 0,
                        !.dragging_from_port = None]
    IN SetPos(c1, b, <<cell_size, cell_size>>)

\* get_project_data, lines 707-718: one record per block of the scene; id(item) is the
\* block's identity.
BlocksData(c) ==
    LET bs == SceneBlocks(c)
    IN [i \in 1..Len(bs) |->
           [id |-> bs[i],
            type |-> c.blocks[bs[i]].kind,
            text |-> c.blocks[bs[i]].text,
            position |-> c.blocks[bs[i]].pos,
            input_ports |-> c.blocks[bs[i]].input_ports,
            output_port |-> c.blocks[bs[i]].output_port,
            size |-> c.blocks[bs[i]].size]]

\* get_project_data, lines 721-738: one record per wire of the scene; id(None) is 0.
WiresData(c) ==
    LET ws == Reverse(c.wscene)
    IN [i \in 1..Len(ws) |->
           [type |-> "AutoRoutedWire",
            from_block |-> c.wires[ws[i]].from_block,
            from_port |-> c.wires[ws[i]].from_port,
            to_block |-> c.wires[ws[i]].to_block,
            to_port |-> c.wires[ws[i]].to_port,
            start_point |-> c.wires[ws[i]].start_point,
            end_point |-> c.wires[ws[i]].end_point]]

\* FlowchartCanvas.get_project_data: the top-level keys and the two collections.
get_project_data(c) ==
    [keys |-> {"version", "blocks", "wires", "canvas_size"},
     blocks |-> BlocksData(c),
     wires |-> WiresData(c)]

\* load_project, lines 787-790: block.setPos(pos[0], pos[1]) raises on a position
\* that is not a pair, and the record makes no block.
Materializes(d) == Len(d.position) = 2

\* The first failing record ends the loop.
AbortAfterBadRecord(rest) == <<>>

\* load_project, lines 816-818: the exception of a record is caught and the loop
\* continues with the records after it.
AfterBadRecord(rest) == rest

\* load_project, lines 764-818: the blocks in document order; map is block_id_map.
RECURSIVE LoadBlocks(_, _, _)
LoadBlocks(c, data, map) ==
    IF data = <<>> THEN [canvas |-> c, map |-> map]
    ELSE IF ~Materializes(Head(data))
    THEN LoadBlocks(c, AfterBadRecord(Tail(data)), map)
    ELSE LET d == Head(data)
             b == FreshIds(DOMAIN c.blocks, 1)[1]
             made == IF d.type = "StartBlock" THEN NewStartBlock(<<0, 0>>)
                     ELSE IF d.text # "" THEN NewBlock("DraggableBlock", d.text,
                                                        GetBlockSize(d.text), <<0, 0>>)
                     ELSE NewBlock("DraggableBlock", d.text, <<150, 40>>, <<0, 0>>)
             blk == [made EXCEPT !.size = d.size,
                                 !.input_ports = d.input_ports,
                                 !.output_port = d.output_port]
             c1 == SetPos([c EXCEPT !.blocks = (b :> blk) @@ @], b, d.position)
             c2 == [c1 EXCEPT !.scene = Append(@, b)]
         IN LoadBlocks(c2, Tail(data), (d.id :> b) @@ map)

\* load_project, lines 821-868: a wire per record whose two blocks are in the map.
RECURSIVE LoadWires(_, _, _)
LoadWires(c, data, map) ==
    IF data = <<>> THEN c
    ELSE LET d == Head(data)
             known == d.from_block \in DOMAIN map /\ d.to_block \in DOMAIN map
             src == map[d.from_block]
             dst == map[d.to_block]
             w == FreshIds(DOMAIN c.wires, 1)[1]
             wr == [from_block |-> src, from_port |-> d.from_port,
                    to_block |-> dst, to_port |-> d.to_port,
                    start_point |-> d.start_point, end_point |-> d.end_point]
             c1 == [c EXCEPT !.blocks[src].out_wires = Append(@, w)]
             c2 == [c1 EXCEPT !.blocks[dst].in_wires = Append(@, w)]
             c3 == [c2 EXCEPT !.blocks[src] = assign_output_port(@, d.from_port)]
             c4 == [c3 EXCEPT !.blocks[dst] = assign_input_port(@, d.to_port),
                              !.wires = (w :> wr) @@ @,
                              !.wscene = Append(@, w)]
         IN IF known THEN LoadWires(c4, Tail(data), map)
            ELSE LoadWires(c, Tail(data), map)

\* FlowchartCanvas.load_project: the canvas afterwards, and whether it raised.
load_project(c, doc) ==
    LET c1 == clear_canvas(c)
        lb == LoadBlocks(c1, doc.blocks, << >>)
        c2 == LoadWires(lb.canvas, IF "wires" \in doc.keys THEN doc.wires ELSE <<>>, lb.map)
        loaded == {lb.map[i] : i \in DOMAIN lb.map}
    IN IF "blocks" \notin doc.keys
       THEN [canvas |-> c1, raised |-> TRUE]
       ELSE [canvas |-> [c2 EXCEPT !.blocks =
                            [b \in DOMAIN c2.blocks |->
                                IF b \in loaded THEN update_port_colors(c2.blocks[b])
                                ELSE c2.blocks[b]]],
             raised |-> FALSE]

----------------------------------------------------------------------------
(* MainWindow: save and open *)

\* MainWindow._prepare_project_data
prepare_project_data(c) ==
    [get_project_data(c) EXCEPT !.keys = @ \cup {"tags_configuration", "metadata"}]

\* validators.validate_project_data: the required top-level keys.
required_keys == {"blocks", "wires", "canvas_data"}
validate_project_data(doc) == required_keys \subseteq doc.keys

\* What the file system makes of a save: the file is written; the directory of the
\* path does not exist; it is not writable; open() of the file fails; the write fails
\* after the file was opened; json.dump cannot serialize the data.
SaveOutcomes ==
    {"written", "no_directory", "not_writable", "open_error", "write_error",
     "serialization_error"}

\* _update_save_state runs whatever came of the write.
save_to_file_eager(c, cur, disk, path, outcome) ==
    [project_modified |-> FALSE,
     current_project_file |-> path,
     file |-> IF outcome = "written" THEN prepare_project_data(c) ELSE disk,
     returned |-> outcome = "written"]

\* MainWindow._save_to_file(path): the window's save state and the file on disk
\* afterwards, and the value returned. The checks of the directory, then
\* _prepare_project_data and _write_project_file, then _update_save_state; any
\* exception on the way is caught and False returned. open(path, 'w') empties the
\* file, so a write that fails afterwards leaves nothing readable.
save_to_file(c, cur, disk, path, outcome) ==
    IF outcome = "written"
    THEN [project_modified |-> FALSE,
          current_project_file |-> path,
          file |-> prepare_project_data(c),
          returned |-> TRUE]
    ELSE [project_modified |-> c.project_modified,
          current_project_file |-> cur,
          file |-> IF outcome \in {"write_error", "serialization_error"}
                   THEN NoFile ELSE disk,
          returned |-> FALSE]

----------------------------------------------------------------------------
(* Inputs *)

\* Where blocks are dropped from the toolbox (the pointer's scene position).
DropPoints == {<<325, 120>>, <<325, 220>>}
\* The drop points whose landing place no block of the scene occupies.
FreeDropPoints(c) ==
    {pt \in DropPoints : \A b \in InScene(c) : c.blocks[b].pos # <<pt[1] - 75, pt[2] - 20>>}
\* Where a block is dropped whatever is there already.
PlacePoints == {<<325, 120>>}
\* How far from the gesture's port, along each axis, the pointer is moved: around the
\* limits of 10 (direct line), 30 (a leg that takes a join) and the tie of dx and dy.
MoveOffsets == {-76, -51, -31, -10, -9, 0, 9, 10, 30, 31, 50, 51, 75, 76}
\* Where the pointer is moved while a provisional wire is live.
MovePoints(c) ==
    LET p0 == c.wires[c.temp_wire].start_point
    IN {<<p0[1] + dx, p0[2] + dy>> : dx \in MoveOffsets, dy \in MoveOffsets}
\* Drops at the right edge and at the bottom edge of the scene.
EdgeDropPoints(c) == {<<SceneWidth(c), 120>>, <<325, SceneHeight(c)>>}
\* Where a drag takes a block (its position before mouseMoveEvent settles it).
DragTargets == {<<250, 100>>}

\* A point 10 units outside the block from the port's centre: off the ellipse,
\* within the tolerance of the proximity search.
Beside(blk, p) ==
    LET c == PortPos(blk, p)
    IN CASE p = "top" -> <<c[1], c[2] - 10>>
         [] p = "left" -> <<c[1] - 10, c[2]>>
         [] p = "right" -> <<c[1] + 10, c[2]>>
         [] p = "bottom" -> <<c[1], c[2] + 10>>

\* The ports the pointer is taken to.
PointerPorts == {"right", "bottom"}

\* Where the pointer is pressed: on a port of the scene, or on empty space.
PressPoints(c) ==
    {<<0, 0>>} \cup {PortPos(c.blocks[b], p) : b \in InScene(c), p \in PointerPorts}

\* Where the pointer is released: as for a press, or beside a port.
ReleasePoints(c) ==
    PressPoints(c) \cup {Beside(c.blocks[b], p) : b \in InScene(c), p \in PointerPorts}

\* scene.selectedItems() at Copy: up to MaxSel distinct blocks, in any order.
Selections(S) ==
    UNION {{s \in [1..n -> S] : \A i, j \in 1..n : i # j => s[i] # s[j]} : n \in 1..MaxSel}

\* The wires of the scene with both ends bound.
Placed(c) ==
    {w \in Range(c.wscene) : c.wires[w].from_block # 0 /\ c.wires[w].to_block # 0}

\* What the user selects before Delete: a block or a placed wire.
Selectable(c) ==
    {<<"block", b>> : b \in InScene(c)} \cup {<<"wire", w>> : w \in Placed(c)}

\* Documents handed to load_project: what get_project_data returns, whole or with
\* top-level keys missing.
Documents(c) ==
    {[get_project_data(c) EXCEPT !.keys = @ \ K] : K \in {{}, {"blocks"}, {"wires"}}}

\* The identifier of the block record that fails to materialize.
BadId == -1

\* A block record whose position is an empty list.
BadRecord ==
    [id |-> BadId, type |-> "DraggableBlock", text |-> "Timer / Clock", position |-> <<>>,
     input_ports |-> {}, output_port |-> None, size |-> GetBlockSize("Timer / Clock")]

\* Documents with damaged records: what get_project_data returns with the bad block
\* record put first, and with one end of one wire record, or none, pointing at it.
Damaged(c) ==
    LET doc == [get_project_data(c) EXCEPT !.blocks = <<BadRecord>> \o @]
    IN {doc}
       \cup {[doc EXCEPT !.wires[j].from_block = BadId] : j \in DOMAIN doc.wires}
       \cup {[doc EXCEPT !.wires[j].to_block = BadId] : j \in DOMAIN doc.wires}

----------------------------------------------------------------------------
(* The state machine *)

Init ==
    /\ blocks = (1 :> NewStartBlock(<<cell_size, cell_size>>))
    /\ scene = <<1>>
    /\ wires = << >>
    /\ wscene = <<>>
    /\ temp_wire = 0
    /\ dragging_from = 0
    /\ dragging_from_port = None
    /\ copy_buffer = <<>>
    /\ wire_buffer = <<>>
    /\ drawn_cols = cols
    /\ drawn_rows = rows
    /\ pending = <<1>>
    /\ project_modified = FALSE
    /\ file = NoFile
    /\ open_error = "none"
    /\ hung = FALSE
    /\ current_project_file = None
    /\ last_call = NoCall

\* Within the bounds of the model: the objects alive once the handler has returned.
Fits(c, extra) ==
    /\ Cardinality(DOMAIN c.blocks) <= MaxBlocks + extra
    /\ Cardinality(DOMAIN c.wires) <= MaxWires + extra

\* The handler's result becomes the state; call is what is recorded of the handler,
\* extra the blocks it may leave alive beyond MaxBlocks.
ApplyWithin(r, call, extra) ==
    LET c == Canon(Collect(r))
    IN /\ Fits(c, extra)
       /\ last_call' = call
       /\ blocks' = c.blocks
       /\ scene' = c.scene
       /\ wires' = c.wires
       /\ wscene' = c.wscene
       /\ temp_wire' = c.temp_wire
       /\ dragging_from' = c.dragging_from
       /\ dragging_from_port' = c.dragging_from_port
       /\ copy_buffer' = c.copy_buffer
       /\ wire_buffer' = c.wire_buffer
       /\ drawn_cols' = c.drawn_cols
       /\ drawn_rows' = c.drawn_rows
       /\ pending' = c.pending
       /\ project_modified' = c.project_modified

ApplyCall(r, call) == ApplyWithin(r, call, 0)

\* A handler of which nothing is recorded.
Apply(r) == ApplyCall(r, NoCall)

\* An input event is taken when the loop is not stuck and every zero-delay timer
\* has fired.
Ready == ~hung /\ pending = <<>>

\* The zero-delay timer of itemChange fires: _update_connected_wires of the block.
Timer ==
    /\ ~hung
    /\ pending # <<>>
    /\ LET b == Head(pending)
           ins == blocks[b].input_ports
       IN \E first \in (IF ins = {} THEN {None} ELSE ins) :
              Apply([update_connected_wires(Canvas, b, first) EXCEPT !.pending = Tail(@)])
    /\ UNCHANGED <<file, open_error, hung, current_project_file>>

Press ==
    /\ Ready
    /\ \E pt \in PressPoints(Canvas) : Apply(mousePressEvent(Canvas, pt))
    /\ UNCHANGED <<file, open_error, hung, current_project_file>>

Release ==
    /\ Ready
    /\ temp_wire # 0
    /\ \E pt \in ReleasePoints(Canvas) : Apply(mouseReleaseEvent(Canvas, pt))
    /\ UNCHANGED <<file, open_error, hung, current_project_file>>

RightClick ==
    /\ Ready
    /\ Apply(cancel_wire(Canvas))
    /\ UNCHANGED <<file, open_error, hung, current_project_file>>

Escape ==
    /\ Ready
    /\ Apply(cancel_wire(Canvas))
    /\ UNCHANGED <<file, open_error, hung, current_project_file>>

Drop ==
    /\ Ready
    /\ \E text \in Texts, pt \in FreeDropPoints(Canvas) : Apply(dropEvent(Canvas, text, pt))
    /\ UNCHANGED <<file, open_error, hung, current_project_file>>

Drag ==
    /\ Ready
    /\ temp_wire = 0
    /\ \E b \in InScene(Canvas), to \in DragTargets :
           IF DragSettle(Canvas, b, to) = Hang
           THEN hung' = TRUE /\ Apply(Canvas)
           ELSE hung' = hung /\ Apply(mouseMoveEvent(Canvas, b, to))
    /\ UNCHANGED <<file, open_error, current_project_file>>

Delete ==
    /\ Ready
    /\ \E it \in Selectable(Canvas) : Apply(keyDelete(Canvas, <<it>>))
    /\ UNCHANGED <<file, open_error, hung, current_project_file>>

Copy ==
    /\ Ready
    /\ \E sel \in Selections(InScene(Canvas)) : Apply(keyCopy(Canvas, sel))
    /\ UNCHANGED <<file, open_error, hung, current_project_file>>

Paste ==
    /\ Ready
    /\ \A i \in DOMAIN copy_buffer : copy_buffer[i].pos[2] + paste_offset <= MaxPasteY
    /\ Apply(keyPaste(Canvas))
    /\ UNCHANGED <<file, open_error, hung, current_project_file>>

\* MainWindow.new_project, the user confirming and naming the project: clear_canvas,
\* the new path, nothing unsaved.
NewProject ==
    /\ Ready
    /\ Apply([clear_canvas(Canvas) EXCEPT !.project_modified = FALSE])
    /\ current_project_file' = ProjectPath
    /\ UNCHANGED <<file, open_error, hung>>

\* FlowchartCanvas.load_project on a document.
LoadProject ==
    /\ Ready
    /\ \E doc \in Documents(Canvas) : Apply(load_project(Canvas, doc).canvas)
    /\ UNCHANGED <<file, open_error, hung, current_project_file>>

\* FlowchartCanvas.load_project, with no gesture in progress, on a damaged document of
\* a canvas of MaxBlocks blocks; the canvas holds one block more afterwards, the Start
\* block of clear_canvas.
LoadDamaged ==
    /\ Ready
    /\ temp_wire = 0
    /\ Len(scene) = MaxBlocks
    /\ \E doc \in Damaged(Canvas) :
           LET r == load_project(Canvas, doc)
           IN ApplyWithin(r.canvas, [op |-> "load", doc |-> doc, raised |-> r.raised], 1)
    /\ UNCHANGED <<file, open_error, hung, current_project_file>>

\* dropEvent at a point that may be taken already.
Place ==
    /\ Ready
    /\ \E text \in Texts, pt \in PlacePoints : Apply(dropEvent(Canvas, text, pt))
    /\ UNCHANGED <<file, open_error, hung, current_project_file>>

\* A port press with no gesture in progress.
Begin == temp_wire = 0 /\ Press

\* Blocks are dropped and wired, one gesture at a time, while nothing has been copied.
Build == copy_buffer = <<>> /\ (Drop \/ Begin \/ Release)

\* keyPressEvent with Copy, once, on a selection of blocks of a canvas of MaxBlocks
\* blocks with no gesture in progress.
CopySelection ==
    /\ Ready
    /\ temp_wire = 0
    /\ copy_buffer = <<>>
    /\ last_call = NoCall
    /\ Len(scene) = MaxBlocks
    /\ \E sel \in Selections(InScene(Canvas)) :
           ApplyCall(keyCopy(Canvas, sel), [op |-> "copy", sel |-> sel])
    /\ UNCHANGED <<file, open_error, hung, current_project_file>>

\* keyPressEvent with Paste right after the Copy; the canvas may hold MaxSel blocks
\* and wires more afterwards.
PasteCopied ==
    /\ Ready
    /\ last_call.op = "copy"
    /\ ApplyWithin(keyPaste(Canvas),
                   [op |-> "paste", sel |-> last_call.sel, canvas |-> Canvas], MaxSel)
    /\ UNCHANGED <<file, open_error, hung, current_project_file>>

\* keyPressEvent with Delete on one selected wire, no gesture in progress.
DeleteWire ==
    /\ Ready
    /\ temp_wire = 0
    /\ \E w \in Placed(Canvas) :
           ApplyCall(keyDelete(Canvas, << <<"wire", w>> >>),
                     [op |-> "disconnect", wire |-> w, canvas |-> Canvas])
    /\ UNCHANGED <<file, open_error, hung, current_project_file>>

\* mouseMoveEvent while a provisional wire is live.
Move ==
    /\ Ready
    /\ temp_wire # 0
    /\ \E pt \in MovePoints(Canvas) : Apply(MoveWire(Canvas, pt))
    /\ UNCHANGED <<file, open_error, hung, current_project_file>>

\* dropEvent at the edge of the scene, which makes _expand_scene draw more grid.
DropAtEdge ==
    /\ Ready
    /\ drawn_cols < MaxCols
    /\ drawn_rows < MaxRows
    /\ \E text \in Texts, pt \in EdgeDropPoints(Canvas) : Apply(dropEvent(Canvas, text, pt))
    /\ UNCHANGED <<file, open_error, hung, current_project_file>>

\* MainWindow.save_project / save_project_as to ProjectPath, with whatever the file
\* system makes of it.
Save ==
    /\ Ready
    /\ \E outcome \in SaveOutcomes :
           LET r == save_to_file(Canvas, current_project_file, file, ProjectPath, outcome)
           IN /\ file' = r.file
              /\ current_project_file' = r.current_project_file
              /\ ApplyCall([Canvas EXCEPT !.project_modified = r.project_modified],
                           [op |-> "save", outcome |-> outcome, returned |-> r.returned,
                            canvas |-> Canvas,
                            current_project_file |-> current_project_file])
    /\ UNCHANGED <<open_error, hung>>

\* MainWindow.open_project on the file written last, the user confirming.
Open ==
    /\ Ready
    /\ file # NoFile
    /\ IF ~validate_project_data(file)
       THEN /\ open_error' = "ProjectDataError"
            /\ Apply(Canvas)
            /\ UNCHANGED current_project_file
       ELSE LET r == load_project(Canvas, file)
            IN IF r.raised
               THEN /\ open_error' = "ProjectDataError"
                    /\ Apply(r.canvas)
                    /\ UNCHANGED current_project_file
               ELSE /\ open_error' = "none"
                    /\ Apply([r.canvas EXCEPT !.project_modified = FALSE])
                    /\ current_project_file' = ProjectPath
    /\ UNCHANGED <<file, hung>>

\* The graph editor: blocks, the wire gesture, deletion and load.
Next ==
    \/ Timer
    \/ Press
    \/ Release
    \/ RightClick
    \/ Escape
    \/ Drop
    \/ Delete
    \/ LoadProject

Spec == Init /\ [][Next]_vars

\* Placement: drop, drag, copy and paste.
NextPlace ==
    \/ Timer
    \/ Place
    \/ Drag
    \/ Copy
    \/ Paste
    \/ Delete

SpecPlace == Init /\ [][NextPlace]_vars

\* The project file: save and open.
NextFile ==
    \/ Timer
    \/ Drop
    \/ Delete
    \/ NewProject
    \/ Save
    \/ Open

SpecFile == Init /\ [][NextFile]_vars

\* Loading documents with damaged records into a canvas with blocks and wires.
NextLoad ==
    \/ Timer
    \/ Drop
    \/ Press
    \/ Release
    \/ LoadDamaged

SpecLoad == Init /\ [][NextLoad]_vars

\* A drag while the canvas has no wire yet: the blocks are arranged first.
Arrange == wscene = <<>> /\ Drag

\* Wire gestures among blocks that drags have put side by side.
NextPack ==
    \/ Timer
    \/ Place
    \/ Arrange
    \/ Press
    \/ Release

SpecPack == Init /\ [][NextPack]_vars

\* The grid: drops near the origin and at the edge, deletion, a new project, load.
NextGrid ==
    \/ Timer
    \/ Drop
    \/ DropAtEdge
    \/ Delete
    \/ NewProject
    \/ LoadProject

SpecGrid == Init /\ [][NextGrid]_vars

\* Copy and paste of blocks that have been wired.
NextCopy ==
    \/ Timer
    \/ Build
    \/ CopySelection
    \/ PasteCopied

SpecCopy == Init /\ [][NextCopy]_vars

\* Wires are made and deleted one at a time.
NextCut ==
    \/ Timer
    \/ Build
    \/ DeleteWire

SpecCut == Init /\ [][NextCut]_vars

\* The provisional wire following the pointer: its path is routed anew at each move.
NextRoute ==
    \/ Timer
    \/ Begin
    \/ Move
    \/ RightClick

SpecRoute == Init /\ [][NextRoute]_vars

----------------------------------------------------------------------------
(* Port roles *)

\* No block holds a port in both roles, and the output role is one port or none.
RolesDisjoint(c) ==
    \A b \in DOMAIN c.blocks :
        /\ c.blocks[b].output_port \in Ports \cup {None}
        /\ c.blocks[b].output_port \notin c.blocks[b].input_ports

\* C1: in every state reached by port presses, wire completions, cancels, wire and
\* block deletions and loads of exported documents, and in what a paste of any copied
\* selection makes of such a state, each block has at most one output port and its
\* output_port is not a member of its input_ports.
C1_RolesDisjoint ==
    /\ RolesDisjoint(Canvas)
    /\ \A sel \in Selections(InScene(Canvas)) :
           RolesDisjoint(keyPaste(keyCopy(Canvas, sel)))

\* A block that holds one port as output and another as input, each with a wire.
C1_Witness ==
    \E b \in InScene(Canvas) :
        /\ blocks[b].output_port # None
        /\ blocks[b].input_ports # {}
        /\ blocks[b].out_wires # <<>>
        /\ blocks[b].in_wires # <<>>

----------------------------------------------------------------------------
(* Export and load *)

\* What identifies a block in a comparison of two canvases: its label and position.
Desc(c, b) ==
    IF b \in InScene(c)
    THEN [text |-> c.blocks[b].text, pos |-> c.blocks[b].pos]
    ELSE [text |-> "", pos |-> <<>>]

\* A block of the scene with its roles.
RoleDesc(c, b) ==
    [text |-> c.blocks[b].text, pos |-> c.blocks[b].pos,
     input_ports |-> c.blocks[b].input_ports, output_port |-> c.blocks[b].output_port]

\* The endpoint tuples of the wires of the scene.
EndpointTuples(c) ==
    {<<Desc(c, c.wires[w].from_block), c.wires[w].from_port,
       Desc(c, c.wires[w].to_block), c.wires[w].to_port>> : w \in Range(c.wscene)}

\* The same number of blocks, block for block the same label, position and roles, and
\* the same wire endpoint tuples.
SameGraph(c, d) ==
    /\ Len(c.scene) = Len(d.scene)
    /\ \A x \in {RoleDesc(c, b) : b \in InScene(c)} \cup {RoleDesc(d, b) : b \in InScene(d)} :
           Cardinality({b \in InScene(c) : RoleDesc(c, b) = x})
               = Cardinality({b \in InScene(d) : RoleDesc(d, b) = x})
    /\ EndpointTuples(c) = EndpointTuples(d)

\* C2: for the graph of any reachable state, get_project_data followed by load_project
\* of that document yields the same number of blocks with the same labels, positions
\* and roles, and the same set of wire endpoint tuples.
C2_RoundTrip ==
    Ready => SameGraph(Canvas, load_project(Canvas, get_project_data(Canvas)).canvas)

\* C3: every document save has written passes validate_project_data, and an open of
\* it never ends in a structural document error.
C3_SavedFileOpens ==
    /\ file # NoFile => validate_project_data(file)
    /\ open_error # "ProjectDataError"

----------------------------------------------------------------------------
(* Deletion, relocation, placement, the Start block *)

\* The wires of the scene bound to block b.
IncidentWires(c, b) ==
    {w \in Range(c.wscene) : c.wires[w].from_block = b \/ c.wires[w].to_block = b}

\* The wires of the scene bound to port p of block b.
WiresOnPort(c, b, p) ==
    {w \in Range(c.wscene) :
        \/ (c.wires[w].from_block = b /\ c.wires[w].from_port = p)
        \/ (c.wires[w].to_block = b /\ c.wires[w].to_port = p)}

\* The wires of the scene with both ends on blocks of the scene.
Bound(c) ==
    {w \in Range(c.wscene) :
        c.wires[w].from_block \in InScene(c) /\ c.wires[w].to_block \in InScene(c)}

\* Port p of block b holds no role and is shown available.
Released(c, b, p) ==
    /\ p \notin c.blocks[b].input_ports
    /\ p # c.blocks[b].output_port
    /\ c.blocks[b].brush[p] = "darkblue"

\* The port of block s that wire w uses.
PortUsed(c, w, s) ==
    IF c.wires[w].from_block = s THEN c.wires[w].from_port ELSE c.wires[w].to_port

\* C4: Delete with a non-Start block selected also deletes every wire bound to the
\* block: none of them is on the scene or in a surviving block's in_wires or
\* out_wires afterwards, and the surviving block's port such a wire used is released
\* when no other wire uses it.
C4_DeleteBlockDeletesWires ==
    Ready =>
        \A b \in InScene(Canvas) :
            blocks[b].kind # "StartBlock" =>
                LET r == keyDelete(Canvas, << <<"block", b>> >>)
                    gone == IncidentWires(Canvas, b)
                IN /\ gone \cap Range(r.wscene) = {}
                   /\ \A s \in InScene(r) :
                          gone \cap (Range(r.blocks[s].in_wires)
                                     \cup Range(r.blocks[s].out_wires)) = {}
                   /\ \A w \in gone, s \in InScene(r) :
                          (/\ s \in {wires[w].from_block, wires[w].to_block}
                           /\ WiresOnPort(r, s, PortUsed(Canvas, w, s)) \ gone = {})
                          => Released(r, s, PortUsed(Canvas, w, s))

\* Wire w starts on port from_port of its from_block and ends on port to_port of its
\* to_block, where those ports are now.
Anchored(c, w) ==
    /\ c.wires[w].start_point = PortPos(c.blocks[c.wires[w].from_block], c.wires[w].from_port)
    /\ c.wires[w].end_point = PortPos(c.blocks[c.wires[w].to_block], c.wires[w].to_port)

\* C5: once a block has been dragged to a new place and its deferred _update_connected_wires has run
\* (with an iteration order of input_ports that suits it best), every wire between
\* it and another block of the scene starts at port from_port of from_block and ends
\* at port to_port of to_block.
C5_WiresFollowBlock ==
    (Ready /\ temp_wire = 0) =>
        \A b \in InScene(Canvas), to \in DragTargets :
            (DragSettle(Canvas, b, to) # Hang /\ DragSettle(Canvas, b, to) # blocks[b].pos) =>
                LET moved == mouseMoveEvent(Canvas, b, to)
                    ins == moved.blocks[b].input_ports
                IN \E first \in (IF ins = {} THEN {None} ELSE ins) :
                       \A w \in IncidentWires(moved, b) \cap Bound(moved) :
                           Anchored(update_connected_wires(moved, b, first), w)

\* C6: _disconnect_wire takes the wire off the scene, out of its source block's
\* out_wires and out of its destination block's in_wires, and a port of either block
\* that no wire of the scene is bound to afterwards is shown available.
C6_DisconnectReleases ==
    Ready =>
        \A w \in Placed(Canvas) \cap Bound(Canvas) :
            LET r == disconnect_wire(Canvas, w)
                src == wires[w].from_block
                dst == wires[w].to_block
            IN /\ w \notin Range(r.wscene)
               /\ w \notin Range(r.blocks[src].out_wires)
               /\ w \notin Range(r.blocks[dst].in_wires)
               /\ WiresOnPort(r, src, wires[w].from_port) = {}
                      => r.blocks[src].brush[wires[w].from_port] = "darkblue"
               /\ WiresOnPort(r, dst, wires[w].to_port) = {}
                      => r.blocks[dst].brush[wires[w].to_port] = "darkblue"

\* C7: after every drop, paste and settled drag, no two blocks' rectangles intersect
\* and every block's rectangle lies inside the scene rectangle.
C7_NoOverlapInsideScene ==
    /\ \A a, b \in InScene(Canvas) :
           a # b => ~Intersects(BlockRect(blocks[a]), BlockRect(blocks[b]))
    /\ \A b \in InScene(Canvas) :
           /\ BlockRect(blocks[b])[1] >= 0
           /\ BlockRect(blocks[b])[2] >= 0
           /\ BlockRect(blocks[b])[3] <= SceneWidth(Canvas)
           /\ BlockRect(blocks[b])[4] <= SceneHeight(Canvas)

\* The Start blocks of the scene.
StartBlocks(c) == {b \in InScene(c) : c.blocks[b].kind = "StartBlock"}

\* C8: in every reachable state the canvas contains exactly one Start block.
C8_OneStartBlock == Cardinality(StartBlocks(Canvas)) = 1

\* C9: the Start block is output-only: no wire of the canvas has the Start block as
\* its destination and the Start block's input_ports is empty.
C9_StartOutputOnly ==
    \A b \in StartBlocks(Canvas) :
        /\ blocks[b].input_ports = {}
        /\ \A w \in Range(wscene) : wires[w].to_block # b

----------------------------------------------------------------------------
(* Load of a malformed document *)

\* The blocks and wires of the scene with their roles and incident lists.
GraphView(c) ==
    [blocks |-> [i \in DOMAIN c.scene |->
                    [kind |-> c.blocks[c.scene[i]].kind,
                     text |-> c.blocks[c.scene[i]].text,
                     pos |-> c.blocks[c.scene[i]].pos,
                     input_ports |-> c.blocks[c.scene[i]].input_ports,
                     output_port |-> c.blocks[c.scene[i]].output_port,
                     in_wires |-> c.blocks[c.scene[i]].in_wires,
                     out_wires |-> c.blocks[c.scene[i]].out_wires]],
     wires |-> [j \in DOMAIN c.wscene |->
                   [from_block |-> c.wires[c.wscene[j]].from_block,
                    from_port |-> c.wires[c.wscene[j]].from_port,
                    to_block |-> c.wires[c.wscene[j]].to_block,
                    to_port |-> c.wires[c.wscene[j]].to_port]]]

\* The documents that lack a required top-level collection.
Malformed(c) == {doc \in Documents(c) : ~({"blocks", "wires"} \subseteq doc.keys)}

\* C10: load_project of a document that lacks a required top-level collection fails
\* and leaves the blocks, the wires and the port roles of the canvas as they were.
C10_MalformedLoadLeavesCanvas ==
    Ready =>
        \A doc \in Malformed(Canvas) :
            /\ load_project(Canvas, doc).raised
            /\ GraphView(Canon(Collect(load_project(Canvas, doc).canvas))) = GraphView(Canvas)

----------------------------------------------------------------------------
(* Load of a document with damaged records *)

\* The block records of a document that make a block.
WellFormed(doc) == {i \in DOMAIN doc.blocks : Materializes(doc.blocks[i])}

\* What identifies a block record, and a block of the canvas: type, label, position.
RecordKey(d) == [type |-> d.type, text |-> d.text, position |-> d.position]
BlockKey(c, b) ==
    [type |-> c.blocks[b].kind, text |-> c.blocks[b].text, position |-> c.blocks[b].pos]

\* The well-formed block record with the identifier id.
RecordOf(doc, id) == doc.blocks[CHOOSE i \in WellFormed(doc) : doc.blocks[i].id = id]

\* The wire records both of whose ends are well-formed block records.
Resolves(doc) ==
    {j \in DOMAIN doc.wires :
        \A id \in {doc.wires[j].from_block, doc.wires[j].to_block} :
            \E i \in WellFormed(doc) : doc.blocks[i].id = id}

\* The endpoint tuple of a wire record, and of a wire of the canvas.
RecordTuple(doc, j) ==
    <<RecordKey(RecordOf(doc, doc.wires[j].from_block)), doc.wires[j].from_port,
      RecordKey(RecordOf(doc, doc.wires[j].to_block)), doc.wires[j].to_port>>
WireTuple(c, w) ==
    <<BlockKey(c, c.wires[w].from_block), c.wires[w].from_port,
      BlockKey(c, c.wires[w].to_block), c.wires[w].to_port>>

\* C11: load_project of a document with a block record that fails to materialize, or
\* a wire record with an end that resolves to no block, does not raise; every
\* well-formed block record is a block of the canvas afterwards, every wire record
\* whose two ends resolve is a wire of the canvas with those ends, and the other wire
\* records have made no wire.
C11_LoadSkipsBadRecords ==
    last_call.op = "load" =>
        LET doc == last_call.doc
        IN /\ ~last_call.raised
           /\ \A i \in WellFormed(doc) :
                  Cardinality({b \in InScene(Canvas) :
                                  BlockKey(Canvas, b) = RecordKey(doc.blocks[i])})
                      >= Cardinality({k \in WellFormed(doc) :
                                         RecordKey(doc.blocks[k]) = RecordKey(doc.blocks[i])})
           /\ \A j \in Resolves(doc) :
                  Cardinality({w \in Range(wscene) :
                                  WireTuple(Canvas, w) = RecordTuple(doc, j)})
                      = Cardinality({k \in Resolves(doc) :
                                        RecordTuple(doc, k) = RecordTuple(doc, j)})
           /\ Len(wscene) = Cardinality(Resolves(doc))

\* A document with a block record that made no block, a wire record skipped for it
\* and a wire record that was reconstructed has been loaded.
C11_Witness ==
    /\ last_call.op = "load"
    /\ WellFormed(last_call.doc) # DOMAIN last_call.doc.blocks
    /\ Resolves(last_call.doc) # {}
    /\ \E j \in DOMAIN last_call.doc.wires, i \in WellFormed(last_call.doc) :
           {last_call.doc.wires[j].from_block, last_call.doc.wires[j].to_block}
               = {BadId, last_call.doc.blocks[i].id}
    /\ wscene # <<>>

----------------------------------------------------------------------------
(* Save *)

\* C12: a save that fails returns False and leaves the canvas graph,
\* current_project_file and project_modified as they were before it.
C12_FailedSaveKeepsState ==
    (last_call.op = "save" /\ last_call.outcome # "written") =>
        /\ last_call.returned = FALSE
        /\ Canvas = last_call.canvas
        /\ current_project_file = last_call.current_project_file

\* A save of a modified, never saved project with a dropped block has failed.
C12_Witness ==
    /\ last_call.op = "save"
    /\ last_call.outcome # "written"
    /\ project_modified
    /\ current_project_file = None
    /\ Len(scene) > 1

----------------------------------------------------------------------------
(* The modification signal *)

\* C13: every structural change marks the project modified: a drop, a Delete of a
\* wire or of a block other than Start, a paste, a drag that moves a block, a release
\* that completes a wire (by exact hit or by proximity) and a press that removes a
\* wire each leave project_modified true.
C13_ChangesMarkModified ==
    Ready =>
        /\ \A text \in Texts, pt \in DropPoints :
               dropEvent(Canvas, text, pt).project_modified
        /\ \A it \in Selectable(Canvas) :
               (it[1] = "wire" \/ blocks[it[2]].kind # "StartBlock")
                   => keyDelete(Canvas, <<it>>).project_modified
        /\ copy_buffer # <<>> => keyPaste(Canvas).project_modified
        /\ temp_wire = 0 =>
               \A b \in InScene(Canvas), to \in DragTargets :
                   (/\ DragSettle(Canvas, b, to) # Hang
                    /\ DragSettle(Canvas, b, to) # blocks[b].pos)
                       => mouseMoveEvent(Canvas, b, to).project_modified
        /\ \A pt \in ReleasePoints(Canvas) :
               Placed(mouseReleaseEvent(Canvas, pt)) # Placed(Canvas)
                   => mouseReleaseEvent(Canvas, pt).project_modified
        /\ \A pt \in PressPoints(Canvas) :
               Len(mousePressEvent(Canvas, pt).wscene) < Len(wscene)
                   => mousePressEvent(Canvas, pt).project_modified

----------------------------------------------------------------------------
(* The wire gesture *)

\* The roles and the incident lists of a block.
BlockState(c, b) ==
    [output_port |-> c.blocks[b].output_port, input_ports |-> c.blocks[b].input_ports,
     in_wires |-> c.blocks[b].in_wires, out_wires |-> c.blocks[b].out_wires]

\* The wires of the scene that are not bound to a source and a destination block.
Provisional(c) == Range(c.wscene) \ Placed(c)

\* C14: a port press that starts a gesture followed by a cancel (right button or
\* Escape) removes the provisional wire, leaves the gesture Idle and leaves every
\* block's output_port, input_ports, in_wires and out_wires as before the press.
C14_CancelHasNoSideEffect ==
    (Ready /\ temp_wire = 0) =>
        \A pt \in PressPoints(Canvas) :
            LET routing == mousePressEvent(Canvas, pt)
                idle == cancel_wire(routing)
            IN routing.temp_wire # 0 =>
                   /\ idle.temp_wire = 0
                   /\ idle.dragging_from = 0
                   /\ routing.temp_wire \notin Range(idle.wscene)
                   /\ \A b \in InScene(Canvas) : BlockState(idle, b) = BlockState(Canvas, b)

\* C15: the canvas holds at most one provisional wire, the one _temp_wire refers to,
\* and a port press while Routing starts no second one.
C15_OneProvisionalWire ==
    /\ Cardinality(Provisional(Canvas)) <= 1
    /\ Provisional(Canvas) \subseteq {temp_wire}
    /\ (Ready /\ temp_wire # 0) =>
           \A pt \in PressPoints(Canvas) :
               Provisional(mousePressEvent(Canvas, pt)) \subseteq {temp_wire}

\* Port q of block s holds the same roles in c and d.
SameRole(c, d, s, q) ==
    /\ (q \in c.blocks[s].input_ports) = (q \in d.blocks[s].input_ports)
    /\ (q = c.blocks[s].output_port) = (q = d.blocks[s].output_port)

C17_ReleaseBindsWire ==
    (Ready /\ temp_wire # 0 /\ dragging_from # 0) =>
        \A pt \in ReleasePoints(Canvas) :
            LET r == mouseReleaseEvent(Canvas, pt)
                w == temp_wire
                A == dragging_from
                D == r.wires[w].to_block
            IN r.temp_wire = 0 =>
                   /\ r.dragging_from = 0
                   /\ r.wscene = wscene
                   /\ Placed(r) = Placed(Canvas) \cup {w}
                   /\ r.wires[w].from_block = A
                   /\ r.wires[w].from_port = dragging_from_port
                   /\ D \in InScene(Canvas) \ {A}
                   /\ r.wires[w].to_port \in r.blocks[D].input_ports
                   /\ r.blocks[A].output_port = dragging_from_port
                   /\ r.blocks[A].out_wires = Append(blocks[A].out_wires, w)
                   /\ r.blocks[D].in_wires = Append(blocks[D].in_wires, w)

\* The pointer at pt is over empty space: no port ellipse within the tolerance.
EmptySpace(c, pt) ==
    \A b \in InScene(c), p \in Ports : Manhattan(pt, PortPos(c.blocks[b], p)) > tolerance

\* The pointer at pt is exactly over a port, and every port under it is ineligible:
\* a port of the source block, or the current output port of its block.
OverIneligiblePort(c, pt) ==
    /\ ItemsAt(c, pt) # <<>>
    /\ \A k \in DOMAIN ItemsAt(c, pt) :
           LET b == ItemsAt(c, pt)[k][1]
               p == ItemsAt(c, pt)[k][2]
           IN b = c.dragging_from \/ p = c.blocks[b].output_port

\* C18: while Routing, a release over empty space or exactly over an ineligible port
\* creates no wire, changes no block and leaves the provisional wire live.
C18_MissKeepsRouting ==
    (Ready /\ temp_wire # 0 /\ dragging_from # 0) =>
        \A pt \in ReleasePoints(Canvas) :
            (EmptySpace(Canvas, pt) \/ OverIneligiblePort(Canvas, pt))
                => mouseReleaseEvent(Canvas, pt) = Canvas

----------------------------------------------------------------------------
(* Port availability *)

\* C19: assign_output_port on a port that holds the input role, and assign_input_port
\* on the block's output port, are refused and leave the block as it was.
C19_RefusedAssignKeepsRoles ==
    \A b \in DOMAIN blocks :
        /\ \A p \in blocks[b].input_ports :
               /\ ~AssignOutputOk(blocks[b], p)
               /\ assign_output_port(blocks[b], p) = blocks[b]
        /\ blocks[b].output_port # None =>
               /\ ~AssignInputOk(blocks[b], blocks[b].output_port)
               /\ assign_input_port(blocks[b], blocks[b].output_port) = blocks[b]

\* A gesture is live, a block other than its source holds one port as output and
\* another as input, and a release on its output port is refused and changes nothing.
C19_Witness ==
    /\ temp_wire # 0
    /\ \E b \in InScene(Canvas) \ {dragging_from} :
           /\ blocks[b].output_port # None
           /\ blocks[b].input_ports # {}
           /\ PortPos(blocks[b], blocks[b].output_port) \in ReleasePoints(Canvas)
           /\ mouseReleaseEvent(Canvas, PortPos(blocks[b], blocks[b].output_port)) = Canvas

\* C20: with no gesture live, a port that no wire of the scene is bound to is
\* available for either role: assign_input_port and assign_output_port would succeed.
C20_UnwiredPortAvailable ==
    (Ready /\ temp_wire = 0) =>
        \A b \in InScene(Canvas), p \in Ports :
            WiresOnPort(Canvas, b, p) = {} =>
                /\ AssignInputOk(blocks[b], p)
                /\ AssignOutputOk(blocks[b], p)

----------------------------------------------------------------------------
(* Wire topology *)

----------------------------------------------------------------------------
(* Drag and grid *)

\* The pointer takes a dragged block past the right edge of the scene.
FarRight(c) == <<SceneWidth(c), 100>>

\* C22: the overlap loop of a drag move ends for every arrangement of blocks: for a
\* drag onto the blocks of the canvas, and for a drag onto a block that an earlier
\* drag has left against the right edge of the scene.
C22_DragTerminates ==
    (Ready /\ temp_wire = 0) =>
        /\ \A b \in InScene(Canvas), to \in DragTargets :
               DragSettle(Canvas, b, to) # Hang
        /\ \A a, b \in InScene(Canvas) :
               (a # b /\ DragSettle(Canvas, a, FarRight(Canvas)) # Hang) =>
                   LET edge == mouseMoveEvent(Canvas, a, FarRight(Canvas))
                   IN DragSettle(edge, b, FarRight(edge)) # Hang

\* The scene rectangle reaches the far edge of every block of the scene.
Covers(c) ==
    \A b \in InScene(c) :
        /\ c.blocks[b].pos[1] + c.blocks[b].size[1] <= SceneWidth(c)
        /\ c.blocks[b].pos[2] + c.blocks[b].size[2] <= SceneHeight(c)

\* C23: no step (drop, Delete, clear_canvas, load_project) lowers drawn_cols or
\* drawn_rows, and what _expand_scene draws reaches the far edge of every block.
C23_GridGrows ==
    [][/\ drawn_cols' >= drawn_cols
       /\ drawn_rows' >= drawn_rows
       /\ Covers(expand_scene(Canvas))]_vars

\* The grid has grown past its first extent and the blocks that made it grow are gone:
\* only the Start block is left.
C23_Witness ==
    /\ Ready
    /\ drawn_cols > cols + 10
    /\ drawn_rows > rows + 50
    /\ Len(scene) = 1

----------------------------------------------------------------------------
(* The routed path *)

\* The path of wire w of canvas c, as update_endpoints leaves it.
PathOf(c, w) == update_path(c.wires[w].start_point, c.wires[w].end_point)

\* The points a path is drawn through: the end of each line, the control point and
\* the end of each join.
RECURSIVE Trace(_)
Trace(path) ==
    IF path = <<>> THEN <<>>
    ELSE LET el == Head(path)
         IN (IF el[1] = "quadTo" THEN <<el[2], el[3]>> ELSE <<el[2]>>) \o Trace(Tail(path))

\* b lies on one horizontal or vertical line with a and c.
InLine(a, b, c) == (a[1] = b[1] /\ b[1] = c[1]) \/ (a[2] = b[2] /\ b[2] = c[2])

\* A polyline without the points at which it does not turn.
RECURSIVE Simplify(_)
Simplify(pts) ==
    IF Len(pts) < 3 THEN pts
    ELSE IF InLine(pts[1], pts[2], pts[3])
    THEN Simplify(<<pts[1]>> \o Tail(Tail(pts)))
    ELSE <<pts[1]>> \o Simplify(Tail(pts))

\* The corners of a path: where it starts, where it turns, where it ends.
Corners(path) == Simplify(Trace(path))

\* The wire is routed in three legs: neither axis is within 10 units.
ThreeLeg(wr) ==
    /\ Abs(wr.end_point[1] - wr.start_point[1]) >= 10
    /\ Abs(wr.end_point[2] - wr.start_point[2]) >= 10

\* The two bends of a three-leg route, in fifths: at 60% of the longer span.
BendPoints(wr) ==
    LET dx == wr.end_point[1] - wr.start_point[1]
        dy == wr.end_point[2] - wr.start_point[2]
        s == Fifths(wr.start_point)
        e == Fifths(wr.end_point)
    IN IF Abs(dx) > Abs(dy)
       THEN << <<s[1] + 3 * dx, s[2]>>, <<s[1] + 3 * dx, e[2]>> >>
       ELSE << <<s[1], s[2] + 3 * dy>>, <<e[1], s[2] + 3 * dy>> >>

\* C24: the path of every wire starts at start_point and ends at end_point; it is one
\* straight segment exactly when |dx| < 10 or |dy| < 10; otherwise it turns twice, at
\* x = start.x + 0.6 * dx on the way across when |dx| > |dy| and at
\* y = start.y + 0.6 * dy on the way down when |dx| <= |dy|.
C24_RouteShape ==
    \A w \in Range(wscene) :
        LET path == PathOf(Canvas, w)
            s == Fifths(wires[w].start_point)
            e == Fifths(wires[w].end_point)
            last == path[Len(path)]
        IN /\ path[1] = <<"moveTo", s>>
           /\ last[Len(last)] = e
           /\ ~ThreeLeg(wires[w]) <=> path = << <<"moveTo", s>>, <<"lineTo", e>> >>
           /\ ThreeLeg(wires[w]) =>
                  Corners(path) = <<s>> \o BendPoints(wires[w]) \o <<e>>

\* The pointer has been moved as far down as across, 10 units or more: the tie of
\* |dx| and |dy|, routed in three legs.
C24_Witness ==
    /\ temp_wire # 0
    /\ ThreeLeg(wires[temp_wire])
    /\ Abs(wires[temp_wire].end_point[1] - wires[temp_wire].start_point[1])
           = Abs(wires[temp_wire].end_point[2] - wires[temp_wire].start_point[2])

\* The path has a rounded join whose control point is bend.
Rounded(path, bend) ==
    \E i \in DOMAIN path : path[i][1] = "quadTo" /\ path[i][2] = bend

\* C29: in a three-leg route a bend is a rounded join exactly when both legs that
\* meet there are longer than twice the corner radius; a join starts and ends one
\* radius from its bend; the path turns at both bends in order and ends at end_point.
C29_JoinsOnLongLegs ==
    \A w \in Range(wscene) :
        ThreeLeg(wires[w]) =>
            LET path == PathOf(Canvas, w)
                p1 == Fifths(wires[w].start_point)
                p2 == BendPoints(wires[w])[1]
                p3 == BendPoints(wires[w])[2]
                p4 == Fifths(wires[w].end_point)
                long == 2 * 5 * corner_radius
            IN /\ Rounded(path, p2) <=> (Manhattan(p1, p2) > long /\ Manhattan(p2, p3) > long)
               /\ Rounded(path, p3) <=> (Manhattan(p2, p3) > long /\ Manhattan(p3, p4) > long)
               /\ \A i \in DOMAIN path :
                      path[i][1] = "quadTo" =>
                          /\ path[i][2] \in {p2, p3}
                          /\ Manhattan(path[i - 1][2], path[i][2]) = 5 * corner_radius
                          /\ Manhattan(path[i][2], path[i][3]) = 5 * corner_radius
               /\ Corners(path) = <<p1, p2, p3, p4>>
               /\ path[Len(path)] = <<"lineTo", p4>>

\* The pointer stands where the first bend is rounded and the second is sharp: the
\* first two legs are long, the last is not.
C29_Witness ==
    /\ temp_wire # 0
    /\ ThreeLeg(wires[temp_wire])
    /\ Rounded(PathOf(Canvas, temp_wire), BendPoints(wires[temp_wire])[1])
    /\ ~Rounded(PathOf(Canvas, temp_wire), BendPoints(wires[temp_wire])[2])

----------------------------------------------------------------------------
(* Copy and paste *)

\* The blocks of a selection that Copy takes: all but the Start block.
Copied(c, sel) == SelectSeq(sel, LAMBDA b : c.blocks[b].kind # "StartBlock")

\* The wires of the scene that join two blocks of bs.
WiresAmong(c, bs) ==
    {w \in Range(c.wscene) : c.wires[w].from_block \in Range(bs) /\ c.wires[w].to_block \in Range(bs)}

\* C25: right after a Paste that follows a Copy, the scene holds one more block per
\* selected block other than Start, with its label, at its position plus (50, 50); one
\* more wire per wire that joined two copied blocks, between the copies and through
\* the same ports; no other wire; and every block and wire it held before, unchanged.
C25_PasteCopiesSelection ==
    last_call.op = "paste" =>
        LET before == last_call.canvas
            bs == Copied(before, last_call.sel)
            n == Len(before.scene)
            m == Len(before.wscene)
            among == WiresAmong(before, bs)
            CopyOf(b) == n + IndexOf(bs, b)
            Image(w) == <<CopyOf(before.wires[w].from_block), before.wires[w].from_port,
                          CopyOf(before.wires[w].to_block), before.wires[w].to_port>>
            Ends(w) == <<wires[w].from_block, wires[w].from_port,
                         wires[w].to_block, wires[w].to_port>>
        IN /\ Len(scene) = n + Len(bs)
           /\ \A i \in 1..Len(bs) :
                  /\ blocks[n + i].text = before.blocks[bs[i]].text
                  /\ blocks[n + i].kind = "DraggableBlock"
                  /\ blocks[n + i].pos = <<before.blocks[bs[i]].pos[1] + 50,
                                          before.blocks[bs[i]].pos[2] + 50>>
           /\ Len(wscene) = m + Cardinality(among)
           /\ \A w \in among :
                  Cardinality({v \in (m + 1)..Len(wscene) : Ends(v) = Image(w)})
                      = Cardinality({v \in among : Image(v) = Image(w)})
           /\ \A b \in 1..n : blocks[b] = before.blocks[b]
           /\ \A w \in 1..m : wires[w] = before.wires[w]

\* Two wired blocks were copied and pasted: the wire between them has a copy, and a
\* wire from a block that was not selected has none.
C25_Witness ==
    /\ last_call.op = "paste"
    /\ LET before == last_call.canvas
           bs == Copied(before, last_call.sel)
       IN /\ WiresAmong(before, bs) # {}
          /\ Range(before.wscene) \ WiresAmong(before, bs) # {}
          /\ Len(wscene) > Len(before.wscene)

----------------------------------------------------------------------------
(* Roles after a disconnect *)

C27_LastOutputResetsWhenAlone ==
    last_call.op = "disconnect" =>
        LET before == last_call.canvas
            A == before.wires[last_call.wire].from_block
        IN (A \in InScene(before) /\ before.blocks[A].out_wires = <<last_call.wire>>) =>
               IF before.blocks[A].in_wires = <<>>
               THEN blocks[A].output_port = None
               ELSE /\ blocks[A].output_port = before.blocks[A].output_port
                    /\ blocks[A].input_ports = before.blocks[A].input_ports

\* The only outgoing wire of a block that has an incoming wire was deleted, and the
\* block still holds its output port.
C27_Witness ==
    /\ last_call.op = "disconnect"
    /\ LET before == last_call.canvas
           A == before.wires[last_call.wire].from_block
       IN /\ before.blocks[A].out_wires = <<last_call.wire>>
          /\ before.blocks[A].in_wires # <<>>
          /\ blocks[A].out_wires = <<>>
          /\ blocks[A].output_port # None

\* C28: for every block of the scene, every wire in its out_wires leaves from its
\* output_port and every wire in its in_wires ends on one of its input_ports.
C28_RolesMatchWires ==
    \A b \in InScene(Canvas) :
        /\ \A k \in DOMAIN blocks[b].out_wires :
               wires[blocks[b].out_wires[k]].from_port = blocks[b].output_port
        /\ \A k \in DOMAIN blocks[b].in_wires :
               wires[blocks[b].in_wires[k]].to_port \in blocks[b].input_ports

----------------------------------------------------------------------------
(* The exported document *)

\* C30: in the document get_project_data returns, no two block records have the same
\* id and the from_block and to_block of every wire record are ids of block records.
C30_DocumentClosed ==
    LET doc == get_project_data(Canvas)
        ids == {doc.blocks[i].id : i \in DOMAIN doc.blocks}
    IN /\ \A i, j \in DOMAIN doc.blocks : doc.blocks[i].id = doc.blocks[j].id => i = j
       /\ \A j \in DOMAIN doc.wires :
              /\ doc.wires[j].from_block \in ids
              /\ doc.wires[j].to_block \in ids

====
